---- MODULE Spec2Model ----
(***************************************************************************)
(* Model of numeo-n8n:                                                     *)
(*   - RouteManager (RouteManager.node.ts, first class of the file):       *)
(*     calculateRouteScore, execute (geocode, route query, per-route       *)
(*     enrichment fan-out, score / sort / rank) and decodePolyline;        *)
(*   - EmailParser.execute (EmailParser.node.ts);                          *)
(*   - EECredentialsController: GET /credentials/:id and                   *)
(*     PUT /credentials/:credentialId/share;                               *)
(*   - the language-service worker: loadNodeTypes and its callers.         *)
(*                                                                         *)
(* Numbers.  The code computes with IEEE doubles; the model computes the   *)
(* same expressions exactly, on integers:                                  *)
(*   - route.duration is kept in seconds (the code holds seconds / 3600);  *)
(*   - a score s of the code is the integer s * ScoreOne;                  *)
(*   - a decoded coordinate c of the code is the integer c * 1e5.          *)
(* A string is the sequence of its UTF-16 code units.                      *)
(***************************************************************************)
EXTENDS Integers, Sequences, FiniteSets, TLC

----------------------------------------------------------------------------
(* Program constants                                                       *)

MaxDurationHours ==
    12

MaxMiles ==
    800

SecondsPerHour ==
    3600

DurationWeightTenths ==
    4

MilesWeightTenths ==
    3

ConditionsWeightTenths ==
    3

ConditionPenaltyTenths ==
    2

ElevationThreshold ==
    500

CharOffset ==
    63

ContinuationLimit ==
    31

ShiftStep ==
    5

ElevationWarning ==
    "Significant elevation changes along route"

----------------------------------------------------------------------------
(* Bounds of the model                                                     *)

MaxRoutes ==
    2

MaxItems ==
    2

MaxHalfHours ==
    26

MaxHundredMiles ==
    9

MaxConditions ==
    6

MaxPoints ==
    2

MaxCut ==
    3

\* decodePolyline: characters of an arbitrary input string.
MaxChars ==
    4

\* PUT share: elements of a shareWithIds array.
MaxShareIds ==
    2

\* The worker: names in allNodeNames, and calls of loadNodeTypes in all.
MaxNodeNames ==
    2

MaxCalls ==
    3

MaxMailItems ==
    3

----------------------------------------------------------------------------
(* calculateRouteScore                                                     *)

Abs(x) ==
    IF x < 0 THEN -x ELSE x

Max0(x) ==
    IF x > 0 THEN x ELSE 0

\* One hour-unit of the duration term: 12 h in seconds.
DurationCap ==
    MaxDurationHours * SecondsPerHour

\* The integer that stands for the score 1.0.
ScoreOne ==
    10 * DurationCap

\* Mutant: Math.abs in place of Math.max(0, .).
durationScoreAbs(route) ==
    Abs(DurationCap - route.duration)

\* Math.max(0, 1 - route.duration / 12), times DurationCap.
durationScore(route) ==
    Max0(DurationCap - route.duration)

\* Math.max(0, 1 - route.miles / 800), times DurationCap.
milesScore(route) ==
    Max0(MaxMiles - route.miles) * (DurationCap \div MaxMiles)

\* Math.max(0, 1 - route.badRouteConditions.length * 0.2), times DurationCap.
conditionsScore(route) ==
    Max0(10 - Len(route.badRouteConditions) * ConditionPenaltyTenths)
        * (DurationCap \div 10)

\* Mutant: the weights of duration and distance exchanged.
calculateRouteScoreSwapped(route) ==
    durationScore(route) * MilesWeightTenths
        + milesScore(route) * DurationWeightTenths
        + conditionsScore(route) * ConditionsWeightTenths

calculateRouteScore(route) ==
    durationScore(route) * DurationWeightTenths
        + milesScore(route) * MilesWeightTenths
        + conditionsScore(route) * ConditionsWeightTenths

----------------------------------------------------------------------------
(* decodePolyline                                                          *)
(* index is the code's 0-based read index; polyline[index + 1] is the      *)
(* code unit polyline.charCodeAt(index).  Within the bounds of the model   *)
(* every intermediate value lies inside int32, where <<, >>, & and ~ act   *)
(* as written below.                                                       *)

\* b << shift (the shift count is taken modulo 32).
ShiftLeft(b, shift) ==
    b * 2 ^ (shift % 32)

\* Mutant: the inversion of negative values left out.
zigzagUnsigned(result) ==
    result \div 2

\* (result & 1) !== 0 ? ~(result >> 1) : result >> 1
zigzag(result) ==
    IF result % 2 # 0 THEN -(result \div 2) - 1 ELSE result \div 2

\* b = polyline.charCodeAt(index++) - 63 - 1, for an index inside the string.
chunkAt(polyline, index) ==
    polyline[index + 1] - CharOffset - 1

\* while (b >= 0x1f)
continues(b) ==
    b >= ContinuationLimit

\* do { b = ...; result += b << shift; shift += 5 } while (b >= 0x1f).
\* Past the end charCodeAt is NaN: b is NaN, NaN << shift is 0, result is
\* unchanged, NaN >= 0x1f is false and the loop ends; index still advances.
RECURSIVE readValue(_, _, _, _)
readValue(polyline, index, result, shift) ==
    IF index >= Len(polyline)
    THEN [result |-> result, index |-> index + 1, pastEnd |-> TRUE]
    ELSE LET b == chunkAt(polyline, index)
             r == result + ShiftLeft(b, shift)
         IN  IF continues(b)
             THEN readValue(polyline, index + 1, r, shift + ShiftStep)
             ELSE [result |-> r, index |-> index + 1, pastEnd |-> FALSE]

\* One pass of the outer loop: a latitude delta, a longitude delta, a push.
\* st holds the locals index, lat, lng, points; pastEnd records that a read
\* of this or an earlier pass fell past the end of the string.
decodePass(polyline, st) ==
    LET a    == readValue(polyline, st.index, 1, 0)
        lat2 == st.lat + zigzag(a.result)
        o    == readValue(polyline, a.index, 1, 0)
        lng2 == st.lng + zigzag(o.result)
    IN  [index   |-> o.index,
         lat     |-> lat2,
         lng     |-> lng2,
         points  |-> Append(st.points, [lat |-> lat2, lng |-> lng2]),
         pastEnd |-> st.pastEnd \/ a.pastEnd \/ o.pastEnd]

\* let index = 0; const points = []; let lat = 0; let lng = 0;
decodeStart ==
    [index |-> 0, lat |-> 0, lng |-> 0, points |-> <<>>, pastEnd |-> FALSE]

\* Mutant: one more pass when the index has reached the end.
decodeMoreInclusive(polyline, st) ==
    st.index <= Len(polyline)

\* while (index < polyline.length)
decodeMore(polyline, st) ==
    st.index < Len(polyline)

RECURSIVE decodeFrom(_, _)
decodeFrom(polyline, st) ==
    IF decodeMore(polyline, st)
    THEN decodeFrom(polyline, decodePass(polyline, st))
    ELSE st

decodePolyline(polyline) ==
    decodeFrom(polyline, decodeStart).points

----------------------------------------------------------------------------
(* RouteManager.execute: data                                              *)

\* The polyline "_p~iF~ps|U" of one point (38.5, -120.2), as code units.
SamplePolyline ==
    <<95, 112, 126, 105, 70, 126, 112, 115, 124, 85>>

\* Candidate routes the routing service may return (routesResponse.routes):
\* sections[0] with its polyline, summary.length, summary.duration (seconds),
\* tolls.totalCost and summary.baseCost.  A field the service leaves out is 0
\* here, which is what `|| 0` makes of it.
RawRoutes ==
    { [polyline |-> SamplePolyline, length |-> 300, duration |-> 5 * SecondsPerHour,
       totalCost |-> 10, baseCost |-> 50],
      [polyline |-> <<>>, length |-> 900, duration |-> 14 * SecondsPerHour,
       totalCost |-> 0, baseCost |-> 70] }

RECURSIVE SeqsUpTo(_, _)
SeqsUpTo(S, n) ==
    IF n = 0 THEN {<<>>}
    ELSE LET shorter == SeqsUpTo(S, n - 1)
         IN  shorter \cup {Append(q, x) : q \in {r \in shorter : Len(r) = n - 1}, x \in S}

\* What the route query may answer with: every list of at most MaxRoutes
\* candidates, the empty list included.
RouteResponses ==
    SeqsUpTo(RawRoutes, MaxRoutes)

\* What the elevation request of one candidate may end in: an HTTP error, a
\* response without `elevations`, or a list of samples.
ElevationOutcomes ==
    { [kind |-> "error", elevations |-> <<>>],
      [kind |-> "missing", elevations |-> <<>>],
      [kind |-> "ok", elevations |-> <<100, 200>>],
      [kind |-> "ok", elevations |-> <<0, ElevationThreshold>>],
      [kind |-> "ok", elevations |-> <<100, 700, 650>>] }

\* What the weather completion of one candidate may end in: an HTTP error, a
\* response without choices[0].message, or a completion whose content is empty
\* or a text.
WeatherOutcomes ==
    { [kind |-> "error", content |-> ""],
      [kind |-> "malformed", content |-> ""],
      [kind |-> "ok", content |-> ""],
      [kind |-> "ok", content |-> "Snow and ice on mountain passes"] }

\* Work items: the inputData parameter of an item is not JSON or lacks
\* pickup / delivery ("malformed"), is an order without contact
\* ("nocontact"), or is a complete order ("order").
ItemKinds ==
    {"malformed", "nocontact", "order"}

\* Mutant: the catch rethrows.
fetchElevationDataRethrows(outcome) ==
    IF outcome.kind = "error" THEN [threw |-> TRUE, value |-> <<>>]
    ELSE IF outcome.kind = "missing" THEN [threw |-> FALSE, value |-> <<>>]
    ELSE [threw |-> FALSE, value |-> outcome.elevations]

\* fetchElevationData: response.elevations || [], and [] from the catch when
\* the request throws.  threw says whether the call rejects.
fetchElevationData(outcome) ==
    IF outcome.kind = "error" THEN [threw |-> FALSE, value |-> <<>>]
    ELSE IF outcome.kind = "missing" THEN [threw |-> FALSE, value |-> <<>>]
    ELSE [threw |-> FALSE, value |-> outcome.elevations]

\* Mutant: a difference of the threshold itself counts.
significantElevationChangesAtLeast(elevationData) ==
    \E index \in 2..Len(elevationData) :
        Abs(elevationData[index] - elevationData[index - 1]) >= ElevationThreshold

\* elevationData.some((e, index, array) =>
\*     index > 0 && Math.abs(e.elevation - array[index - 1].elevation) > 500)
significantElevationChanges(elevationData) ==
    \E index \in 2..Len(elevationData) :
        Abs(elevationData[index] - elevationData[index - 1]) > ElevationThreshold

\* The badRouteConditions of one candidate.
compileConditions(content, elevationData) ==
    (IF content # "" THEN <<content>> ELSE <<>>)
        \o (IF significantElevationChanges(elevationData)
            THEN <<ElevationWarning>> ELSE <<>>)

\* The object a branch of the fan-out returns.  ref is the identity of the
\* object: the position of the candidate in routesResponse.routes, which is also
\* its position in processedRoutes before the sort.
processedRoute(raw, ref, content, elevationData) ==
    [ref |-> ref,
     tollInfo |-> [driverCost |-> raw.totalCost, fuelCost |-> raw.baseCost],
     miles |-> raw.length,
     duration |-> raw.duration,
     badRouteConditions |-> compileConditions(content, elevationData)]

\* processedRoutes.forEach((route) => { route.score = calculateRouteScore(route) })
withScore(route) ==
    [ref |-> route.ref, tollInfo |-> route.tollInfo, miles |-> route.miles,
     duration |-> route.duration, badRouteConditions |-> route.badRouteConditions,
     score |-> calculateRouteScore(route)]

\* Mutant: the comparator of an ascending sort.
compareRoutesAscending(a, b) ==
    a.score - b.score

\* The comparator (a, b) => (b.score || 0) - (a.score || 0).
compareRoutes(a, b) ==
    b.score - a.score

\* Mutant: a sort that puts r in front of the elements it ties with.
RECURSIVE insertBeforeTies(_, _)
insertBeforeTies(sorted, r) ==
    IF sorted = <<>> THEN <<r>>
    ELSE IF compareRoutes(Head(sorted), r) < 0
         THEN <<Head(sorted)>> \o insertBeforeTies(Tail(sorted), r)
         ELSE <<r>> \o sorted

\* Array.prototype.sort is stable: r goes behind every element the comparator
\* does not order after it.
RECURSIVE insertSorted(_, _)
insertSorted(sorted, r) ==
    IF sorted = <<>> THEN <<r>>
    ELSE IF compareRoutes(Head(sorted), r) <= 0
         THEN <<Head(sorted)>> \o insertSorted(Tail(sorted), r)
         ELSE <<r>> \o sorted

RECURSIVE sortRoutes(_)
sortRoutes(rs) ==
    IF rs = <<>> THEN <<>>
    ELSE insertSorted(sortRoutes(SubSeq(rs, 1, Len(rs) - 1)), rs[Len(rs)])

\* route.rank = index + 1, for the 0-based index of forEach.
rankOf(index) ==
    index + 1

withRank(route, index) ==
    [ref |-> route.ref, tollInfo |-> route.tollInfo, miles |-> route.miles,
     duration |-> route.duration, badRouteConditions |-> route.badRouteConditions,
     score |-> route.score, rank |-> rankOf(index)]

\* Score and rank routes.
scoreAndRank(processedRoutes) ==
    LET scored == [k \in 1..Len(processedRoutes) |-> withScore(processedRoutes[k])]
        sorted == sortRoutes(scored)
    IN  [k \in 1..Len(sorted) |-> withRank(sorted[k], k - 1)]

----------------------------------------------------------------------------
(* RouteManager.execute: state                                             *)
(*   items       the input items (getInputData), by kind                   *)
(*   i           the loop index, 0-based                                   *)
(*   pc          where execute is suspended: "credentials", "geocode"      *)
(*               (the Promise.all of the two parseAddress calls), "routes" *)
(*               (the route query), "enrich" (the Promise.all over the     *)
(*               candidates) or "finished"                                 *)
(*   geo         the two parseAddress calls of the current item            *)
(*   routes      routesResponse.routes of the current item                 *)
(*   branches    the promises of routes.map(async ...), one per candidate  *)
(*   returnData  the outputs pushed so far                                 *)
(*   result      "running", "returned" (execute resolved with              *)
(*               [returnData]) or "thrown" (execute rejected with error)   *)
(*   error       the error execute rejected with                           *)
(* A branch holds its pc ("elevation", "weather", "fulfilled", "rejected"), *)
(* its locals waypoints and elevationData while it still reads them,       *)
(* elevFailed (whether its elevation request ended in an error) and out,   *)
(* the route it resolved with (a sequence of length 0 or 1).  A branch     *)
(* that resolved keeps what it compiled its conditions from: elevationData *)
(* and content (weatherResponse.choices[0].message.content); order is its  *)
(* place in the order in which the branches resolved (0 before that).      *)
(* An action is one turn of the event loop: the arrival of one response    *)
(* and everything execute does until it next awaits.  The values of the    *)
(* last item's routes and branches stay until the next route response      *)
(* replaces them.                                                          *)

VARIABLES items, i, pc, geo, routes, branches, returnData, result, error

\* The state of the other components (declared with them below).
VARIABLES scored, polyline, original, decoder, mail
VARIABLES sharedCredentials, exchange, loadedNodeTypesMap, dynamicFile, calls

rmVars ==
    <<items, i, pc, geo, routes, branches, returnData, result, error>>

vars ==
    <<items, i, pc, geo, routes, branches, returnData, result, error,
      scored, polyline, original, decoder, mail,
      sharedCredentials, exchange, loadedNodeTypesMap, dynamicFile, calls>>

notRouteManager ==
    <<scored, polyline, original, decoder, mail,
      sharedCredentials, exchange, loadedNodeTypesMap, dynamicFile, calls>>

credentialVars ==
    <<sharedCredentials, exchange>>

workerVars ==
    <<loadedNodeTypesMap, dynamicFile, calls>>

NoError ==
    [message |-> "", cause |-> "", hasItemIndex |-> FALSE, itemIndex |-> 0]

NoGeo ==
    [pickup |-> "none", delivery |-> "none"]

\* catch (error) { throw new ApplicationError('Error processing routes',
\* { cause: error }) }: execute rejects; what returnData holds is not returned.
Throw(j, data, cause) ==
    /\ i' = j
    /\ returnData' = data
    /\ pc' = "finished"
    /\ result' = "thrown"
    /\ error' = [message |-> "Error processing routes", cause |-> cause,
                 hasItemIndex |-> FALSE, itemIndex |-> 0]

\* The head of the for loop at index j with returnData = data, up to the first
\* await of the body: return [returnData] after the last item; JSON.parse and
\* the reads of inputJson.pickup / delivery throw on a malformed item;
\* otherwise both parseAddress calls are issued.
LoopHead(j, data) ==
    IF j >= Len(items)
    THEN /\ i' = j
         /\ returnData' = data
         /\ pc' = "finished"
         /\ result' = "returned"
         /\ UNCHANGED <<error, geo>>
    ELSE IF items[j + 1] = "malformed"
    THEN /\ Throw(j, data, "input")
         /\ UNCHANGED geo
    ELSE /\ i' = j
         /\ returnData' = data
         /\ pc' = "geocode"
         /\ geo' = [pickup |-> "pending", delivery |-> "pending"]
         /\ UNCHANGED <<result, error>>

\* After the Promise.all over the candidates: score, sort, rank, build the
\* output (inputJson.contact.email throws without a contact), push it and go
\* on with the next item.
FinishItem(processedRoutes) ==
    IF items[i + 1] = "nocontact"
    THEN /\ Throw(i, returnData, "output")
         /\ UNCHANGED geo
    ELSE LoopHead(i + 1, Append(returnData, [routes |-> scoreAndRank(processedRoutes)]))

\* A branch at its first await: decodePolyline has run and the elevation
\* request for the waypoints is out.
startBranch(raw) ==
    [pc |-> "elevation",
     waypoints |-> IF raw.polyline # <<>> THEN decodePolyline(raw.polyline) ELSE <<>>,
     elevFailed |-> FALSE,
     elevationData |-> <<>>,
     content |-> "",
     order |-> 0,
     out |-> <<>>]

\* The number of branches that have resolved.
resolvedCount(bs) ==
    Cardinality({k \in 1..Len(bs) : bs[k].pc = "fulfilled"})

\* Mutant: the results in the order in which the branches resolved.
promiseAllInCompletionOrder(bs) ==
    [n \in 1..Len(bs) |-> bs[CHOOSE k \in 1..Len(bs) : bs[k].order = n].out[1]]

\* The value Promise.all resolves with: the results of the branches in the
\* order of the promises passed in, which is the order of routes.
promiseAll(bs) ==
    [n \in 1..Len(bs) |-> bs[n].out[1]]

AllFulfilled(bs) ==
    \A k \in 1..Len(bs) : bs[k].pc = "fulfilled"

\* execute is suspended in the Promise.all over the candidates.
Joining ==
    result = "running" /\ pc = "enrich"

----------------------------------------------------------------------------
(* RouteManager.execute: actions                                           *)

\* getInputData and the two getCredentials calls are done: enter the loop.
Begin ==
    /\ result = "running"
    /\ pc = "credentials"
    /\ LoopHead(0, <<>>)
    /\ UNCHANGED <<items, routes, branches>>
    /\ UNCHANGED notRouteManager

\* One parseAddress call settles.  A rejection rejects the Promise.all at once
\* (the other call stays in flight); with both resolved the route query is
\* issued.
GeocodeResponse(which, ok) ==
    /\ geo[which] = "pending"
    /\ LET g == [geo EXCEPT ![which] = IF ok THEN "ok" ELSE "failed"]
       IN  /\ geo' = g
           /\ IF result = "running" /\ pc = "geocode"
              THEN IF ~ok
                   THEN Throw(i, returnData, "geocode")
                   ELSE IF g.pickup = "ok" /\ g.delivery = "ok"
                        THEN /\ pc' = "routes"
                             /\ UNCHANGED <<i, returnData, result, error>>
                        ELSE UNCHANGED <<i, pc, returnData, result, error>>
              ELSE UNCHANGED <<i, pc, returnData, result, error>>
    /\ UNCHANGED <<items, routes, branches>>
    /\ UNCHANGED notRouteManager

\* The route query fails, or answers without a routes list (routes.length
\* throws): the catch rethrows.
RouteQueryFails ==
    /\ result = "running"
    /\ pc = "routes"
    /\ Throw(i, returnData, "routing")
    /\ UNCHANGED <<items, geo, routes, branches>>
    /\ UNCHANGED notRouteManager

\* The route query answers with the candidates rs: routes.map starts one
\* branch per candidate; Promise.all of no branch resolves with [].
RouteResponse(rs) ==
    /\ result = "running"
    /\ pc = "routes"
    /\ routes' = rs
    /\ branches' = [k \in 1..Len(rs) |-> startBranch(rs[k])]
    /\ IF rs = <<>>
       THEN FinishItem(<<>>)
       ELSE /\ pc' = "enrich"
            /\ UNCHANGED <<i, geo, returnData, result, error>>
    /\ UNCHANGED items
    /\ UNCHANGED notRouteManager

\* The elevation request of candidate k settles with outcome e, and the branch
\* issues its weather request.
ElevationResponse(k, e) ==
    /\ k \in 1..Len(branches)
    /\ branches[k].pc = "elevation"
    /\ LET f == fetchElevationData(e)
       IN  IF f.threw
           THEN /\ branches' = [branches EXCEPT ![k].pc = "rejected",
                                                ![k].waypoints = <<>>,
                                                ![k].elevFailed = TRUE]
                /\ IF Joining
                   THEN Throw(i, returnData, "elevation")
                   ELSE UNCHANGED <<i, pc, returnData, result, error>>
           ELSE /\ branches' = [branches EXCEPT ![k].pc = "weather",
                                                ![k].waypoints = <<>>,
                                                ![k].elevFailed = (e.kind = "error"),
                                                ![k].elevationData = f.value]
                /\ UNCHANGED <<i, pc, returnData, result, error>>
    /\ UNCHANGED <<items, geo, routes>>
    /\ UNCHANGED notRouteManager

\* The weather completion of candidate k settles with outcome w.  An error (or
\* a response without choices[0].message) rejects the branch, and the first
\* rejection rejects the Promise.all, which the catch rethrows while the other
\* branches are still in flight.  Otherwise the branch resolves with its route;
\* when it is the last one, execute goes on to score, sort and rank.
WeatherResponse(k, w) ==
    /\ k \in 1..Len(branches)
    /\ branches[k].pc = "weather"
    /\ IF w.kind # "ok"
       THEN /\ branches' = [branches EXCEPT ![k].pc = "rejected",
                                            ![k].elevationData = <<>>]
            /\ IF Joining
               THEN Throw(i, returnData, "weather") /\ UNCHANGED geo
               ELSE UNCHANGED <<i, pc, geo, returnData, result, error>>
       ELSE LET bs == [branches EXCEPT
                          ![k].pc = "fulfilled",
                          ![k].content = w.content,
                          ![k].order = resolvedCount(branches) + 1,
                          ![k].out = <<processedRoute(routes[k], k, w.content,
                                                      branches[k].elevationData)>>]
            IN  /\ branches' = bs
                /\ IF Joining /\ AllFulfilled(bs)
                   THEN FinishItem(promiseAll(bs))
                   ELSE UNCHANGED <<i, pc, geo, returnData, result, error>>
    /\ UNCHANGED <<items, routes>>
    /\ UNCHANGED notRouteManager

RouteManagerNext ==
    \/ Begin
    \/ \E which \in {"pickup", "delivery"}, ok \in BOOLEAN : GeocodeResponse(which, ok)
    \/ RouteQueryFails
    \/ \E rs \in RouteResponses : RouteResponse(rs)
    \/ \E k \in 1..Len(branches), e \in ElevationOutcomes : ElevationResponse(k, e)
    \/ \E k \in 1..Len(branches), w \in WeatherOutcomes : WeatherResponse(k, w)

----------------------------------------------------------------------------
(* calculateRouteScore applied to routes                                   *)
(*   scored   the last applications of calculateRouteScore, oldest first:  *)
(*            at most two records [route, score]                           *)

\* The routes scored: a duration in steps of half an hour, a distance in steps
\* of 100 miles, a number of conditions.
ScoreInputs ==
    { [duration |-> h * (SecondsPerHour \div 2),
       miles |-> 100 * m,
       badRouteConditions |-> [n \in 1..c |-> "condition"]] :
          h \in 0..MaxHalfHours, m \in 0..MaxHundredMiles, c \in 0..MaxConditions }

measure(route) ==
    [route |-> route, score |-> calculateRouteScore(route)]

ScoreFirst(route) ==
    /\ scored = <<>>
    /\ scored' = <<measure(route)>>
    /\ UNCHANGED <<polyline, original, decoder, mail>>
    /\ UNCHANGED credentialVars
    /\ UNCHANGED workerVars
    /\ UNCHANGED rmVars

\* The route scored first is scored again with one input larger and the other
\* two as they were.
ScoreLarger(route) ==
    /\ Len(scored) = 1
    /\ scored' = <<scored[1], measure(route)>>
    /\ UNCHANGED <<polyline, original, decoder, mail>>
    /\ UNCHANGED credentialVars
    /\ UNCHANGED workerVars
    /\ UNCHANGED rmVars

LongerThan(route) ==
    { [route EXCEPT !.duration = h * (SecondsPerHour \div 2)] :
          h \in { x \in 0..MaxHalfHours : x * (SecondsPerHour \div 2) > route.duration } }

FartherThan(route) ==
    { [route EXCEPT !.miles = 100 * m] :
          m \in { x \in 0..MaxHundredMiles : 100 * x > route.miles } }

WorseThan(route) ==
    { [route EXCEPT !.badRouteConditions = [n \in 1..c |-> "condition"]] :
          c \in { x \in 0..MaxConditions : x > Len(route.badRouteConditions) } }

ScoreNext ==
    \/ \E route \in ScoreInputs : ScoreFirst(route)
    \/ /\ Len(scored) = 1
       /\ \E route \in LongerThan(scored[1].route) : ScoreLarger(route)
    \/ /\ Len(scored) = 1
       /\ \E route \in FartherThan(scored[1].route) : ScoreLarger(route)
    \/ /\ Len(scored) = 1
       /\ \E route \in WorseThan(scored[1].route) : ScoreLarger(route)

----------------------------------------------------------------------------
(* decodePolyline applied to strings                                       *)
(*   original  a sequence of points, in 1e-5 degrees                       *)
(*   polyline  the string decoded: the standard encoding of original, or   *)
(*             that encoding with its last characters cut off              *)
(*   decoder   the call: pc ("loop", "returned"), the locals of             *)
(*             decodePolyline, and the points returned                     *)

\* The standard encoded-polyline encoding: the value shifted left by one and
\* inverted when negative, cut into 5-bit groups from the low end, each group
\* but the last or-ed with 0x20, plus 63.
RECURSIVE encodeUnsigned(_)
encodeUnsigned(v) ==
    IF v >= 32
    THEN <<(v % 32) + 32 + 63>> \o encodeUnsigned(v \div 32)
    ELSE <<v + 63>>

encodeSigned(v) ==
    encodeUnsigned(IF v < 0 THEN -(2 * v) - 1 ELSE 2 * v)

\* Each point as the difference to the point before it, latitude first.
RECURSIVE encodeFrom(_, _, _)
encodeFrom(points, lat, lng) ==
    IF points = <<>> THEN <<>>
    ELSE encodeSigned(Head(points).lat - lat)
             \o encodeSigned(Head(points).lng - lng)
             \o encodeFrom(Tail(points), Head(points).lat, Head(points).lng)

encodePolyline(points) ==
    encodeFrom(points, 0, 0)

\* Points of the model, in 1e-5 degrees: the origin, points around it, points
\* of a route, and the corners of the coordinate range.
SamplePoints ==
    { [lat |-> 0, lng |-> 0],
      [lat |-> -17, lng |-> 16],
      [lat |-> 3850000, lng |-> -12020000],
      [lat |-> 4070000, lng |-> -12095000],
      [lat |-> 9000000, lng |-> 18000000],
      [lat |-> -9000000, lng |-> -18000000] }

\* Code units of arbitrary input strings: ' ' (below the offset 63), '?' and
\* '^' (no continuation), '_', '~' and DEL (continuation).
SampleChars ==
    {32, 63, 94, 95, 126, 127}

DecodeInit ==
    /\ \/ /\ original \in SeqsUpTo(SamplePoints, MaxPoints)
          /\ \E cut \in 0..MaxCut :
                /\ cut <= Len(encodePolyline(original))
                /\ polyline = SubSeq(encodePolyline(original), 1,
                                     Len(encodePolyline(original)) - cut)
       \/ /\ original = <<>>
          /\ polyline \in SeqsUpTo(SampleChars, MaxChars)
    /\ decoder = [pc |-> "loop", st |-> decodeStart, returned |-> <<>>]

\* One pass of while (index < polyline.length).
DecodePass ==
    /\ decoder.pc = "loop"
    /\ decodeMore(polyline, decoder.st)
    /\ decoder' = [decoder EXCEPT !.st = decodePass(polyline, decoder.st)]
    /\ UNCHANGED <<polyline, original, scored, mail>>
    /\ UNCHANGED credentialVars
    /\ UNCHANGED workerVars
    /\ UNCHANGED rmVars

\* return points
DecodeReturn ==
    /\ decoder.pc = "loop"
    /\ ~decodeMore(polyline, decoder.st)
    /\ decoder' = [decoder EXCEPT !.pc = "returned", !.returned = decoder.st.points]
    /\ UNCHANGED <<polyline, original, scored, mail>>
    /\ UNCHANGED credentialVars
    /\ UNCHANGED workerVars
    /\ UNCHANGED rmVars

DecodeNext ==
    \/ DecodePass
    \/ DecodeReturn

----------------------------------------------------------------------------
(* EmailParser.execute                                                     *)
(*   mail   the call: items (the input items, by their subject), i (the    *)
(*          loop index, 0-based), pc ("credentials", "request" while the   *)
(*          completion request of item i is out, "finished"), returnData,  *)
(*          result ("running", "returned", "thrown"), error, and requests: *)
(*          the item indexes the completion request was issued for         *)

\* A JSON value that is undefined or null.
Absent ==
    "<absent>"

\* !value
Falsy(value) ==
    value = Absent \/ value = ""

Mails ==
    {"Load Chicago to Dallas", "Out of office"}

FieldValues ==
    {Absent, "", "given"}

\* What the completion request may end in: an HTTP error with a response, a
\* failure without one, a response without choices[0].message.content, a
\* content that is no JSON, or a JSON object with or without contact, whose
\* name, email and phone are absent, empty or given.
MailOutcomes ==
    { [kind |-> k, hasContact |-> FALSE, name |-> Absent, email |-> Absent,
       phone |-> Absent, company |-> Absent] :
          k \in {"httpError", "networkError", "noContent", "notJson", "json"} }
    \cup
    { [kind |-> "json", hasContact |-> TRUE, name |-> n, email |-> e,
       phone |-> p, company |-> c] :
          n \in FieldValues, e \in FieldValues, p \in FieldValues,
          c \in {Absent, "Acme"} }

\* !parsedData.contact?.name || !parsedData.contact?.email ||
\* !parsedData.contact?.phone
missingContact(parsed) ==
    \/ ~parsed.hasContact
    \/ Falsy(parsed.name)
    \/ Falsy(parsed.email)
    \/ Falsy(parsed.phone)

\* The error the try block throws for a settled request, "" for none.
\* Only an HTTP error has error.response.
thrownInTry(outcome) ==
    IF outcome.kind = "httpError" THEN "Request failed with status code"
    ELSE IF outcome.kind = "networkError" THEN "getaddrinfo ENOTFOUND"
    ELSE IF outcome.kind = "noContent" THEN "No valid response from OpenAI"
    ELSE IF outcome.kind = "notJson" THEN "SyntaxError"
    ELSE IF missingContact(outcome)
         THEN "Missing required contact information in the parsed data"
    ELSE ""

\* catch (error): an error with a response is wrapped with { itemIndex: i },
\* any other error is rethrown as it is.
caught(outcome, index) ==
    IF outcome.kind = "httpError"
    THEN [message |-> "OpenAI API Error", cause |-> thrownInTry(outcome),
          hasItemIndex |-> TRUE, itemIndex |-> index]
    ELSE [message |-> thrownInTry(outcome), cause |-> "",
          hasItemIndex |-> FALSE, itemIndex |-> 0]

\* The head of the for loop at index j, up to the await of the request.
mailLoopHead(m, j) ==
    IF j >= Len(m.items)
    THEN [m EXCEPT !.i = j, !.pc = "finished", !.result = "returned"]
    ELSE [m EXCEPT !.i = j, !.pc = "request", !.requests = Append(@, j)]

MailInit ==
    /\ \E its \in SeqsUpTo(Mails, MaxMailItems) :
          mail = [items |-> its, i |-> 0, pc |-> "credentials",
                  returnData |-> <<>>, result |-> "running", error |-> NoError,
                  requests |-> <<>>]

\* getInputData and getCredentials are done: enter the loop.
MailBegin ==
    /\ mail.pc = "credentials"
    /\ mail' = mailLoopHead(mail, 0)
    /\ UNCHANGED <<polyline, original, decoder, scored>>
    /\ UNCHANGED credentialVars
    /\ UNCHANGED workerVars
    /\ UNCHANGED rmVars

\* The completion request of item i settles: the item is pushed and the loop
\* goes on, or execute rejects.
MailResponse(outcome) ==
    /\ mail.pc = "request"
    /\ mail' =
          IF thrownInTry(outcome) # ""
          THEN [mail EXCEPT !.pc = "finished", !.result = "thrown",
                            !.error = caught(outcome, mail.i)]
          ELSE mailLoopHead(
                   [mail EXCEPT !.returnData =
                       Append(@, [json |-> [name |-> outcome.name,
                                            email |-> outcome.email,
                                            phone |-> outcome.phone,
                                            company |-> outcome.company],
                                  pairedItem |-> mail.i])],
                   mail.i + 1)
    /\ UNCHANGED <<polyline, original, decoder, scored>>
    /\ UNCHANGED credentialVars
    /\ UNCHANGED workerVars
    /\ UNCHANGED rmVars

MailNext ==
    \/ MailBegin
    \/ \E outcome \in MailOutcomes : MailResponse(outcome)

----------------------------------------------------------------------------
(* EECredentialsController (src/unnamed/part_000)                          *)
(*   sharedCredentials  the sharings of the stored credential in the       *)
(*                      database: a set of [userId, role]                  *)
(*   exchange           the last request handled, with its response;       *)
(*                      accepted holds the shareWithIds of the last share  *)
(*                      request answered with 200                          *)
(* The services of credentials.service.ee and rightDiff of helpers are     *)
(* modelled from their call sites in the controller.                       *)

\* The users of the instance; user "3" is the instance owner.
Users ==
    {"1", "2", "3"}

\* req.user.globalRole.name
globalRole(userId) ==
    IF userId = "3" THEN "owner" ELSE "member"

\* The id of the one credential in the database.
StoredId ==
    "1"

\* Values of req.params.id / req.params.credentialId that are numbers: the
\* stored credential and one that does not exist.
CredentialIds ==
    {"1", "7"}

\* Number.isNaN(Number(credentialId))
isNaNId(credentialId) ==
    credentialId \notin CredentialIds

\* Values of req.query.includeData ("" when the parameter is absent).
IncludeDataValues ==
    {"", "true", "false"}

\* Elements of a shareWithIds array: the ids of two users as strings, and a
\* number.
ShareIdValues ==
    {[type |-> "string", value |-> u] : u \in {"2", "3"}}
        \cup {[type |-> "number", value |-> "2"]}

\* Values of req.body.shareWithIds: something that is not an array, or an
\* array of at most MaxShareIds elements.
ShareBodies ==
    {[isArray |-> FALSE, ids |-> <<>>]}
        \cup {[isArray |-> TRUE, ids |-> q] : q \in SeqsUpTo(ShareIdValues, MaxShareIds)}

NoSharing ==
    [userId |-> "", role |-> "none"]

NoResponse ==
    [status |-> 0, credential |-> FALSE, data |-> FALSE]

NoExchange ==
    [method |-> "", userId |-> "", id |-> "", includeData |-> "",
     body |-> [isArray |-> FALSE, ids |-> <<>>],
     response |-> NoResponse, accepted |-> <<>>, hasAccepted |-> FALSE]

\* EECredentials.get({ id }, { relations: ['shared', ...] }): the credential
\* with its sharings, or nothing.
getCredential(credentialId, db) ==
    IF credentialId = StoredId
    THEN [found |-> TRUE, shared |-> db]
    ELSE [found |-> FALSE, shared |-> {}]

\* credential.shared?.find((shared) => shared.user.id === req.user.id)
userSharingOf(shared, userId) ==
    IF \E sh \in shared : sh.userId = userId
    THEN CHOOSE sh \in shared : sh.userId = userId
    ELSE NoSharing

\* Mutant: the role of the sharing is not looked at.
withholdsDataFromStrangers(includeDecryptedData, userSharing) ==
    ~includeDecryptedData \/ userSharing = NoSharing

\* !includeDecryptedData || !userSharing || userSharing.role.name !== 'owner'
withholdsData(includeDecryptedData, userSharing) ==
    ~includeDecryptedData \/ userSharing = NoSharing \/ userSharing.role # "owner"

\* The handler of GET /credentials/:id: the response to user userId.
getResponse(userId, credentialId, includeData, db) ==
    LET includeDecryptedData == includeData = "true"
        credential == getCredential(credentialId, db)
        userSharing == userSharingOf(credential.shared, userId)
    IN  IF isNaNId(credentialId)
        THEN [status |-> 400, credential |-> FALSE, data |-> FALSE]
        ELSE IF ~credential.found
        THEN [status |-> 404, credential |-> FALSE, data |-> FALSE]
        ELSE IF userSharing = NoSharing /\ globalRole(userId) # "owner"
        THEN [status |-> 403, credential |-> FALSE, data |-> FALSE]
        ELSE IF withholdsData(includeDecryptedData, userSharing)
        THEN [status |-> 200, credential |-> TRUE, data |-> FALSE]
        ELSE [status |-> 200, credential |-> TRUE, data |-> TRUE]

\* !Array.isArray(shareWithIds) || !shareWithIds.every((userId) => typeof userId === 'string')
badShareBody(body) ==
    ~body.isArray \/ ~(\A n \in 1..Len(body.ids) : body.ids[n].type = "string")

\* The ids of an array of strings.
idsOf(body) ==
    [n \in 1..Len(body.ids) |-> body.ids[n].value]

\* EECredentials.isOwned(req.user, credentialId): the credential exists and
\* the user holds its sharing of role owner.
isOwned(userId, credentialId, db) ==
    /\ getCredential(credentialId, db).found
    /\ [userId |-> userId, role |-> "owner"] \in db

\* EECredentials.pruneSharings(trx, credentialId, userIds): remove all sharings
\* that are not supposed to exist anymore.
pruneSharings(db, userIds) ==
    {sh \in db : sh.userId \in userIds}

\* EECredentials.getSharings(trx, credentialId)
getSharings(db) ==
    db

\* rightDiff([left, keyOfLeft], [right, keyOfRight]): the elements of right
\* whose key no element of left has.
rightDiff(sharings, shareWithIds) ==
    SelectSeq(shareWithIds, LAMBDA id : \A sh \in sharings : sh.userId # id)

\* EECredentials.share(trx, credential, newShareeIds): a sharing of role user
\* for each new sharee.
share(db, newShareeIds) ==
    db \cup {[userId |-> newShareeIds[n], role |-> "user"] : n \in 1..Len(newShareeIds)}

\* Mutant: the requester is not on the list of sharings to keep.
shareTransactionWithoutRequester(db, userId, shareWithIds) ==
    LET pruned == pruneSharings(db, {shareWithIds[n] : n \in 1..Len(shareWithIds)})
        sharings == getSharings(pruned)
        newShareeIds == rightDiff(sharings, shareWithIds)
    IN  IF Len(newShareeIds) > 0 THEN share(pruned, newShareeIds) ELSE pruned

\* The body of Db.transaction in PUT /:credentialId/share.
shareTransaction(db, userId, shareWithIds) ==
    LET pruned == pruneSharings(db, {userId} \cup {shareWithIds[n] : n \in 1..Len(shareWithIds)})
        sharings == getSharings(pruned)
        newShareeIds == rightDiff(sharings, shareWithIds)
    IN  IF Len(newShareeIds) > 0 THEN share(pruned, newShareeIds) ELSE pruned

\* GET /credentials/:id from user userId.
GetCredential(userId, credentialId, includeData) ==
    /\ exchange' = [method |-> "GET", userId |-> userId, id |-> credentialId,
                    includeData |-> includeData,
                    body |-> NoExchange.body,
                    response |-> getResponse(userId, credentialId, includeData,
                                             sharedCredentials),
                    accepted |-> exchange.accepted,
                    hasAccepted |-> exchange.hasAccepted]
    /\ UNCHANGED sharedCredentials
    /\ UNCHANGED <<scored, polyline, original, decoder, mail>>
    /\ UNCHANGED workerVars
    /\ UNCHANGED rmVars

\* PUT /credentials/:credentialId/share from user userId.
ShareCredential(userId, credentialId, body) ==
    LET status == IF badShareBody(body) THEN 400
                  ELSE IF ~isOwned(userId, credentialId, sharedCredentials) THEN 403
                  ELSE 200
    IN  /\ sharedCredentials' =
              IF status = 200
              THEN shareTransaction(sharedCredentials, userId, idsOf(body))
              ELSE sharedCredentials
        /\ exchange' = [method |-> "PUT", userId |-> userId, id |-> credentialId,
                        includeData |-> "",
                        body |-> body,
                        response |-> [status |-> status, credential |-> FALSE,
                                      data |-> FALSE],
                        accepted |-> IF status = 200 THEN idsOf(body)
                                     ELSE exchange.accepted,
                        hasAccepted |-> exchange.hasAccepted \/ status = 200]
        /\ UNCHANGED <<scored, polyline, original, decoder, mail>>
        /\ UNCHANGED workerVars
        /\ UNCHANGED rmVars

\* The database holds the owner's sharing and any sharings of role user.
CredentialsInit ==
    /\ \E owner \in Users, sharees \in SUBSET Users :
          sharedCredentials = {[userId |-> owner, role |-> "owner"]}
              \cup {[userId |-> u, role |-> "user"] : u \in sharees \ {owner}}
    /\ exchange = NoExchange

CredentialsNext ==
    \/ \E userId \in Users, credentialId \in CredentialIds \cup {"abc"},
          includeData \in IncludeDataValues :
          GetCredential(userId, credentialId, includeData)
    \/ \E userId \in Users, credentialId \in CredentialIds, body \in ShareBodies :
          ShareCredential(userId, credentialId, body)

----------------------------------------------------------------------------
(* The language-service worker (src/unnamed/part_001)                      *)
(*   loadedNodeTypesMap  the entries [name, schema] of the object, in the  *)
(*                       order of Object.keys (the order of first          *)
(*                       insertion)                                        *)
(*   dynamicFile         'n8n-dynamic.d.ts' in the virtual file system:    *)
(*                       whether it exists, and the entries its content    *)
(*                       declares, in order                                *)
(*   calls               the calls of loadNodeTypes so far: nodeName, pc   *)
(*                       ("fetching" at the await, else "done") and got,   *)
(*                       what nodeJsonFetcher answered ("" while it has    *)
(*                       not, "loaded" for a call that returned at once)   *)
(* An action is one turn of the event loop.                                *)

\* Names of the nodes of the workflow.
NodeNames ==
    {"Webhook", "Set", "Merge"}

\* What nodeJsonFetcher may answer with: undefined, a schema, or a rejection.
FetchOutcomes ==
    {"undefined", "schema1", "schema2", "error"}

isSchema(got) ==
    got \in {"schema1", "schema2"}

\* Object.keys(loadedNodeTypesMap)
keysOf(map) ==
    [n \in 1..Len(map) |-> map[n].name]

\* loadedNodeTypesMap[nodeName] is set.
isLoaded(map, nodeName) ==
    \E n \in 1..Len(map) : map[n].name = nodeName

\* loadedNodeTypesMap[nodeName] = { type, typeName }: a new key goes to the
\* end, an existing key keeps its place.
storeNodeType(map, nodeName, schema) ==
    IF isLoaded(map, nodeName)
    THEN [n \in 1..Len(map) |->
             IF map[n].name = nodeName THEN [name |-> nodeName, schema |-> schema]
             ELSE map[n]]
    ELSE Append(map, [name |-> nodeName, schema |-> schema])

\* Mutant: the file declares the node just loaded only.
dynamicFileContentOfLast(map) ==
    <<map[Len(map)]>>

\* The content written to 'n8n-dynamic.d.ts': NodeName, the types and
\* NodeDataMap, each over all entries of loadedNodeTypesMap.
dynamicFileContent(map) ==
    map

\* updateFile(fileName, content): env.updateFile if the file exists, else
\* env.createFile; either way the file then exists with that content.
updateFile(file, content) ==
    [exists |-> TRUE, declares |-> content]

\* loadNodeTypes(nodeName) up to its await: the call returns at once for a
\* loaded node, else the fetch is out.
startLoad(map, nodeName) ==
    IF isLoaded(map, nodeName)
    THEN [nodeName |-> nodeName, pc |-> "done", got |-> "loaded"]
    ELSE [nodeName |-> nodeName, pc |-> "fetching", got |-> ""]

\* init: the virtual file system is set up with 'n8n-dynamic.d.ts' holding
\* 'export {}', and loadNodeTypes is called for every name of allNodeNames.
WorkerInitialize(allNodeNames) ==
    /\ ~dynamicFile.exists
    /\ dynamicFile' = [exists |-> TRUE, declares |-> <<>>]
    /\ calls' = [n \in 1..Len(allNodeNames) |-> startLoad(loadedNodeTypesMap, allNodeNames[n])]
    /\ UNCHANGED loadedNodeTypesMap
    /\ UNCHANGED <<scored, polyline, original, decoder, mail>>
    /\ UNCHANGED credentialVars
    /\ UNCHANGED rmVars

\* getCompletionsAtPos on a position inside $('nodeName'): loadTypesIfNeeded
\* calls loadNodeTypes(nodeName).
GetCompletionsAtPos(nodeName) ==
    /\ dynamicFile.exists
    /\ Len(calls) < MaxCalls
    /\ calls' = Append(calls, startLoad(loadedNodeTypesMap, nodeName))
    /\ UNCHANGED <<loadedNodeTypesMap, dynamicFile>>
    /\ UNCHANGED <<scored, polyline, original, decoder, mail>>
    /\ UNCHANGED credentialVars
    /\ UNCHANGED rmVars

\* nodeJsonFetcher settles for call c: with a schema the entry is stored and
\* the file rewritten, in the same turn.
FetchResponse(c, outcome) ==
    /\ c \in 1..Len(calls)
    /\ calls[c].pc = "fetching"
    /\ calls' = [calls EXCEPT ![c].pc = "done", ![c].got = outcome]
    /\ IF isSchema(outcome)
       THEN LET map == storeNodeType(loadedNodeTypesMap, calls[c].nodeName, outcome)
            IN  /\ loadedNodeTypesMap' = map
                /\ dynamicFile' = updateFile(dynamicFile, dynamicFileContent(map))
       ELSE UNCHANGED <<loadedNodeTypesMap, dynamicFile>>
    /\ UNCHANGED <<scored, polyline, original, decoder, mail>>
    /\ UNCHANGED credentialVars
    /\ UNCHANGED rmVars

\* The worker is created: nothing is loaded, and there is no file system yet.
WorkerCreated ==
    /\ loadedNodeTypesMap = <<>>
    /\ dynamicFile = [exists |-> FALSE, declares |-> <<>>]
    /\ calls = <<>>

WorkerNext ==
    \/ \E allNodeNames \in SeqsUpTo(NodeNames, MaxNodeNames) : WorkerInitialize(allNodeNames)
    \/ \E nodeName \in NodeNames : GetCompletionsAtPos(nodeName)
    \/ \E c \in 1..Len(calls), outcome \in FetchOutcomes : FetchResponse(c, outcome)

----------------------------------------------------------------------------
(* Specifications                                                          *)

\* The components that are not running.
ScoreIdle ==
    scored = <<>>

DecodeIdle ==
    /\ original = <<>>
    /\ polyline = <<>>
    /\ decoder = [pc |-> "idle", st |-> decodeStart, returned |-> <<>>]

MailIdle ==
    mail = [items |-> <<>>, i |-> 0, pc |-> "idle", returnData |-> <<>>,
            result |-> "running", error |-> NoError, requests |-> <<>>]

CredentialsIdle ==
    /\ sharedCredentials = {}
    /\ exchange = NoExchange

WorkerIdle ==
    /\ loadedNodeTypesMap = <<>>
    /\ dynamicFile = [exists |-> FALSE, declares |-> <<>>]
    /\ calls = <<>>

\* RouteManager.execute is called with the items its.
RouteManagerInit(its) ==
    /\ items = its
    /\ i = 0
    /\ pc = "credentials"
    /\ geo = NoGeo
    /\ routes = <<>>
    /\ branches = <<>>
    /\ returnData = <<>>
    /\ result = "running"
    /\ error = NoError

RouteManagerIdle ==
    /\ RouteManagerInit(<<>>)

\* RouteManager.execute on one item.
Init ==
    /\ \E kind \in ItemKinds : RouteManagerInit(<<kind>>)
    /\ ScoreIdle
    /\ DecodeIdle
    /\ MailIdle
    /\ CredentialsIdle
    /\ WorkerIdle

Next ==
    RouteManagerNext

Spec ==
    Init /\ [][Next]_vars

\* RouteManager.execute on a batch of at most MaxItems items.
InitBatch ==
    /\ \E its \in SeqsUpTo(ItemKinds, MaxItems) : RouteManagerInit(its)
    /\ ScoreIdle
    /\ DecodeIdle
    /\ MailIdle
    /\ CredentialsIdle
    /\ WorkerIdle

SpecBatch ==
    InitBatch /\ [][RouteManagerNext]_vars

\* calculateRouteScore on the routes of ScoreInputs.
InitScore ==
    /\ scored = <<>>
    /\ RouteManagerIdle
    /\ DecodeIdle
    /\ MailIdle
    /\ CredentialsIdle
    /\ WorkerIdle

SpecScore ==
    InitScore /\ [][ScoreNext]_vars

\* decodePolyline on encoded and cut-off strings.
InitDecode ==
    /\ DecodeInit
    /\ RouteManagerIdle
    /\ ScoreIdle
    /\ MailIdle
    /\ CredentialsIdle
    /\ WorkerIdle

SpecDecode ==
    InitDecode /\ [][DecodeNext]_vars

\* decodePolyline runs on: a call that can take a step takes it.
SpecDecodeFair ==
    InitDecode /\ [][DecodeNext]_vars /\ WF_vars(DecodeNext)

\* EmailParser.execute on a batch of at most MaxMailItems items.
InitMail ==
    /\ MailInit
    /\ RouteManagerIdle
    /\ ScoreIdle
    /\ DecodeIdle
    /\ CredentialsIdle
    /\ WorkerIdle

SpecMail ==
    InitMail /\ [][MailNext]_vars

\* The credentials endpoints, one request after the other.
InitCredentials ==
    /\ CredentialsInit
    /\ RouteManagerIdle
    /\ ScoreIdle
    /\ DecodeIdle
    /\ MailIdle
    /\ WorkerIdle

SpecCredentials ==
    InitCredentials /\ [][CredentialsNext]_vars

\* The worker: init, completions and the answers of nodeJsonFetcher in any
\* order.
InitWorker ==
    /\ WorkerCreated
    /\ RouteManagerIdle
    /\ ScoreIdle
    /\ DecodeIdle
    /\ MailIdle
    /\ CredentialsIdle

SpecWorker ==
    InitWorker /\ [][WorkerNext]_vars

----------------------------------------------------------------------------
(* Properties                                                              *)

Range(seq) ==
    { seq[k] : k \in 1..Len(seq) }

\* The one item of the batch is a complete order.
OneOrder ==
    items = <<"order">>

\* C1: in every output, the routes carry the ranks 1..N in list order and the
\* score does not increase along the list; the output of an item holds as many
\* routes as the route query returned candidates.
C1_RankedByScore ==
    /\ \A n \in 1..Len(returnData) :
          LET rs == returnData[n].routes
          IN  /\ \A k \in 1..Len(rs) : rs[k].rank = k
              /\ \A k \in 1..Len(rs) - 1 : rs[k].score >= rs[k + 1].score
    /\ (Len(items) = 1 /\ result = "returned")
          => Len(returnData[1].routes) = Len(routes)

\* Two candidates came back ranked, and the sort moved the second one to the
\* front.
C1_Witness ==
    /\ result = "returned"
    /\ Len(returnData) = 1
    /\ Len(returnData[1].routes) = 2
    /\ returnData[1].routes[1].ref = 2
    /\ returnData[1].routes[1].rank = 1
    /\ returnData[1].routes[1].score > returnData[1].routes[2].score

\* C2 (as claimed): when the weather call of one of several candidates has
\* failed, execute does not reject, and once every branch has settled it has
\* returned all candidates ranked, the failing ones without a weather condition.
C2_WeatherFailureTolerated ==
    (OneOrder /\ Len(branches) >= 2 /\ \E k \in 1..Len(branches) : branches[k].pc = "rejected")
        => /\ result # "thrown"
           /\ (\A k \in 1..Len(branches) : branches[k].pc \in {"fulfilled", "rejected"})
                 => /\ result = "returned"
                    /\ Len(returnData[1].routes) = Len(routes)
                    /\ \A n \in 1..Len(routes) :
                          branches[returnData[1].routes[n].ref].pc = "rejected"
                              => \A c \in Range(returnData[1].routes[n].badRouteConditions) :
                                    c = ElevationWarning

\* C3: a candidate whose elevation request failed goes on with an empty sample
\* list and resolves without the elevation warning; execute never rejects
\* because of an elevation request; and when every branch of an order has
\* resolved, execute has returned each candidate, ranked, with the conditions
\* its branch compiled.
C3_ElevationFailureTolerated ==
    /\ \A k \in 1..Len(branches) :
          branches[k].elevFailed
              => /\ branches[k].pc \in {"weather", "fulfilled", "rejected"}
                 /\ branches[k].elevationData = <<>>
                 /\ branches[k].pc = "fulfilled"
                       => ElevationWarning \notin Range(branches[k].out[1].badRouteConditions)
    /\ result = "thrown" => error.cause # "elevation"
    /\ (OneOrder /\ Len(branches) > 0 /\ AllFulfilled(branches))
          => /\ result = "returned"
             /\ Len(returnData[1].routes) = Len(branches)
             /\ \A k \in 1..Len(branches) :
                   \E n \in 1..Len(branches) :
                      /\ returnData[1].routes[n].ref = k
                      /\ returnData[1].routes[n].rank = n
                      /\ returnData[1].routes[n].badRouteConditions
                            = branches[k].out[1].badRouteConditions

\* The elevation request of the first of two candidates failed, and both came
\* back ranked.
C3_Witness ==
    /\ result = "returned"
    /\ Len(branches) = 2
    /\ branches[1].elevFailed
    /\ ~branches[2].elevFailed
    /\ Len(returnData) = 1
    /\ Len(returnData[1].routes) = 2

\* C4: decodePolyline of the standard encoding of a point sequence returns
\* that sequence; of the empty string, the empty sequence.
C4_DecodeInvertsEncode ==
    /\ (decoder.pc = "returned" /\ polyline = encodePolyline(original))
          => decoder.returned = original
    /\ (decoder.pc = "returned" /\ polyline = <<>>) => decoder.returned = <<>>

\* Two different points, the second one west and south of the first, were
\* encoded, decoded and returned.
C4_Witness ==
    /\ decoder.pc = "returned"
    /\ polyline = encodePolyline(original)
    /\ Len(original) = 2
    /\ original[2].lat < original[1].lat
    /\ original[2].lng < original[1].lng
    /\ decoder.returned = original

\* C5 (as claimed): a call that read past the end of its input, because the
\* input ended inside a coordinate pair, ends in an error and returns nothing.
C5_MalformedFails ==
    (decoder.pc \notin {"idle", "loop"} /\ decoder.st.pastEnd) => decoder.pc = "threw"

\* The score 0.4 * max(0, 1 - d / 12) + 0.3 * max(0, 1 - m / 800)
\* + 0.3 * max(0, 1 - 0.2 * c) in units of 1 / 432000, for d = seconds / 3600:
\* 0.4 is 172800 units and an hour-twelfth second 4; 0.3 is 129600 units, a
\* mile 162 and a condition 25920.
ClaimedScore(seconds, miles, count) ==
    Max0(172800 - 4 * seconds) + Max0(129600 - 162 * miles) + Max0(129600 - 25920 * count)

\* C6: calculateRouteScore is the claimed formula; it is 1.0 for duration 0,
\* miles 0 and no condition; from 12 hours and 800 miles on, only the
\* conditions term is left.
C6_ScoreFormula ==
    \A n \in 1..Len(scored) :
        LET r == scored[n].route
            c == Len(r.badRouteConditions)
        IN  /\ scored[n].score = ClaimedScore(r.duration, r.miles, c)
            /\ (r.duration = 0 /\ r.miles = 0 /\ c = 0) => scored[n].score = 432000
            /\ (r.duration >= 12 * 3600 /\ r.miles >= 800)
                  => scored[n].score = Max0(129600 - 25920 * c)

\* The route of duration 0, miles 0 and no condition was scored, and then the
\* same route with six conditions.
C6_Witness ==
    /\ Len(scored) = 2
    /\ scored[1].route.duration = 0
    /\ scored[1].route.miles = 0
    /\ scored[1].route.badRouteConditions = <<>>
    /\ scored[1].score = 432000
    /\ Len(scored[2].route.badRouteConditions) = 6
    /\ scored[2].score = 302400

\* C7: a route scored again with a larger duration, a larger distance or more
\* conditions, and the other two inputs as they were, does not score higher.
C7_ScoreMonotone ==
    Len(scored) = 2 => scored[2].score <= scored[1].score

\* A route was scored again with a duration beyond the 12 hours, and scored
\* lower.
C7_Witness ==
    /\ Len(scored) = 2
    /\ scored[2].route.duration > DurationCap
    /\ scored[1].route.duration < DurationCap
    /\ scored[2].score < scored[1].score

\* C8: in every output, routes of equal score stand in the order of the
\* candidates the route query returned.
C8_StableRanking ==
    \A n \in 1..Len(returnData) :
        LET rs == returnData[n].routes
        IN  \A p \in 1..Len(rs), q \in 1..Len(rs) :
                (p < q /\ rs[p].score = rs[q].score) => rs[p].ref < rs[q].ref

\* Two candidates of equal score came back, in the order of the route query.
C8_Witness ==
    /\ result = "returned"
    /\ Len(returnData) = 1
    /\ Len(returnData[1].routes) = 2
    /\ returnData[1].routes[1].score = returnData[1].routes[2].score
    /\ returnData[1].routes[1].ref = 1
    /\ returnData[1].routes[2].ref = 2

\* Item j has its output in what execute returned.
OutputReturned(j) ==
    result = "returned" /\ j < Len(returnData)

\* C9 (as claimed): when the processing of item i has failed, its siblings are
\* not aborted: the outputs of the items before it are returned, and no
\* complete order behind it is left unprocessed.
C9_SiblingsSurvive ==
    (pc = "finished" /\ error # NoError)
        => /\ \A j \in 0..i - 1 : OutputReturned(j)
           /\ \A j \in i + 1..Len(items) - 1 : items[j + 1] # "order"

\* C10 (as claimed): no output of EmailParser.execute lacks a contact name,
\* email or phone; an item whose completion lacks one ends in an error that
\* carries that item's index; and no item's completion is requested twice.
C10_MissingContactReported ==
    /\ \A n \in 1..Len(mail.returnData) :
          /\ ~Falsy(mail.returnData[n].json.name)
          /\ ~Falsy(mail.returnData[n].json.email)
          /\ ~Falsy(mail.returnData[n].json.phone)
    /\ (mail.result = "thrown"
          /\ mail.error.message = "Missing required contact information in the parsed data")
          => (mail.error.hasItemIndex /\ mail.error.itemIndex = mail.i)
    /\ \A p \in 1..Len(mail.requests), q \in 1..Len(mail.requests) :
          mail.requests[p] = mail.requests[q] => p = q

\* C11 (as claimed): a route query that answers with no candidate makes execute
\* fail: no output holds an empty route list, and execute never returns an
\* item whose route query found nothing.
C11_NoCandidatesIsFatal ==
    /\ \A n \in 1..Len(returnData) : returnData[n].routes # <<>>
    /\ (OneOrder /\ pc = "finished" /\ geo = [pickup |-> "ok", delivery |-> "ok"]
          /\ routes = <<>> /\ error.cause # "routing")
          => result = "thrown"

\* The claimed list: the weather text if it is not empty, then the warning if
\* two consecutive samples are more than 500 apart.
ClaimedConditions(content, samples) ==
    (IF content = "" THEN <<>> ELSE <<content>>)
        \o (IF \E n \in 1..Len(samples) - 1 :
                  \/ samples[n + 1] - samples[n] > 500
                  \/ samples[n] - samples[n + 1] > 500
            THEN <<"Significant elevation changes along route">>
            ELSE <<>>)

\* C12: the condition list of every enriched candidate is the weather text it
\* received, verbatim and only if non-empty, followed by the elevation warning
\* if and only if two consecutive samples it received differ by more than 500,
\* and nothing else; the returned route of the candidate carries that list.
C12_ConditionsCompiled ==
    /\ \A k \in 1..Len(branches) :
          branches[k].pc = "fulfilled"
              => branches[k].out[1].badRouteConditions
                    = ClaimedConditions(branches[k].content, branches[k].elevationData)
    /\ (OneOrder /\ result = "returned")
          => \A n \in 1..Len(returnData[1].routes) :
                LET r == returnData[1].routes[n]
                IN  r.badRouteConditions
                       = ClaimedConditions(branches[r.ref].content,
                                           branches[r.ref].elevationData)

\* One candidate came back with a weather text and samples 600 apart, the
\* other with an empty text and samples exactly 500 apart.
C12_Witness ==
    /\ result = "returned"
    /\ Len(branches) = 2
    /\ branches[1].content # ""
    /\ branches[1].elevationData = <<100, 700, 650>>
    /\ branches[1].out[1].badRouteConditions
          = <<branches[1].content, "Significant elevation changes along route">>
    /\ branches[2].content = ""
    /\ branches[2].elevationData = <<0, 500>>
    /\ branches[2].out[1].badRouteConditions = <<>>

\* C13: the ranked output is determined by the candidates and by what the
\* services answered for each of them, whatever the order in which the
\* branches resolved: it holds each candidate once, with the fields of that
\* candidate and the conditions and score that follow from its answers, higher
\* scores first, equal scores in the order of the candidates, ranks 1..N.
C13_OrderIndependent ==
    (OneOrder /\ result = "returned")
        => LET rs == returnData[1].routes
           IN  /\ Len(rs) = Len(routes)
               /\ \A k \in 1..Len(routes) : \E n \in 1..Len(rs) : rs[n].ref = k
               /\ \A n \in 1..Len(rs) :
                     LET k == rs[n].ref
                         conditions == ClaimedConditions(branches[k].content,
                                                         branches[k].elevationData)
                     IN  /\ rs[n].rank = n
                         /\ rs[n].miles = routes[k].length
                         /\ rs[n].duration = routes[k].duration
                         /\ rs[n].badRouteConditions = conditions
                         /\ rs[n].score = ClaimedScore(routes[k].duration, routes[k].length,
                                                       Len(conditions))
               /\ \A p \in 1..Len(rs), q \in 1..Len(rs) :
                     p < q => \/ rs[p].score > rs[q].score
                              \/ rs[p].score = rs[q].score /\ rs[p].ref < rs[q].ref

\* The second of two candidates of equal score resolved first, and the two
\* came back in the order of the candidates.
C13_Witness ==
    /\ result = "returned"
    /\ Len(branches) = 2
    /\ branches[2].order = 1
    /\ branches[1].order = 2
    /\ returnData[1].routes[1].score = returnData[1].routes[2].score
    /\ returnData[1].routes[1].ref = 1
    /\ returnData[1].routes[1].rank = 1

\* C14 (as claimed): execute completes the item, with its result or with an
\* error, only when no enrichment branch of the item is pending any more.
C14_JoinAll ==
    (OneOrder /\ result # "running")
        => \A k \in 1..Len(branches) : branches[k].pc \in {"fulfilled", "rejected"}

\* The character at 0-based position j of the input carries the continuation
\* flag: its code less 63 is 0x20 or more.
Flagged(j) ==
    polyline[j + 1] - 63 >= 32

\* An inner loop that starts reading at position from leaves the index at to:
\* every character before the last one read is flagged, and the last read is
\* of an unflagged character or falls past the end of the input.
StopsAtFirst(from, to) ==
    /\ from < to
    /\ \A j \in from..to - 2 : j < Len(polyline) /\ Flagged(j)
    /\ to - 1 >= Len(polyline) \/ ~Flagged(to - 1)

\* C15: decodePolyline returns on every input; a pass of the outer loop moves
\* the index forward by two or more, through two inner loops that each stop at
\* the first unflagged character or the first read past the end; and there are
\* never more points than half the input length, rounded up.
C15_DecodeTerminates ==
    /\ <>(decoder.pc = "returned")
    /\ [](/\ 2 * Len(decoder.st.points) <= Len(polyline) + 1
          /\ 2 * Len(decoder.returned) <= Len(polyline) + 1)
    /\ [][decoder'.st # decoder.st
            => /\ decoder'.st.index >= decoder.st.index + 2
               /\ Len(decoder'.st.points) = Len(decoder.st.points) + 1
               /\ \E mid \in decoder.st.index + 1..decoder'.st.index - 1 :
                     /\ StopsAtFirst(decoder.st.index, mid)
                     /\ StopsAtFirst(mid, decoder'.st.index)]_vars

\* The call on three characters that no encoder produces returned two points,
\* the second from reads past the end.
C15_Witness ==
    /\ decoder.pc = "returned"
    /\ original = <<>>
    /\ Len(polyline) = 3
    /\ polyline[1] = 32
    /\ decoder.st.pastEnd
    /\ decoder.st.index = 4
    /\ Len(decoder.returned) = 2

\* The user of the last request holds a sharing of the stored credential.
HoldsSharing ==
    \E sh \in sharedCredentials : sh.userId = exchange.userId

\* The user of the last request holds the owner sharing of the stored
\* credential.
HoldsOwnerSharing ==
    [userId |-> exchange.userId, role |-> "owner"] \in sharedCredentials

\* C16: a response to GET /credentials/:id carries decrypted data only if the
\* request said includeData=true and the requester holds the sharing of role
\* owner on the credential; every other successful response has no data
\* field; a requester without a sharing on the credential who is not the
\* instance owner gets 403 and no credential field.
C16_DataOnlyForOwner ==
    exchange.method = "GET"
        => /\ exchange.response.data
                 => /\ exchange.response.status = 200
                    /\ exchange.includeData = "true"
                    /\ exchange.id = StoredId
                    /\ HoldsOwnerSharing
           /\ (exchange.response.status = 200
                 /\ ~(exchange.includeData = "true" /\ HoldsOwnerSharing))
                 => ~exchange.response.data
           /\ (exchange.id = StoredId /\ ~HoldsSharing
                 /\ globalRole(exchange.userId) # "owner")
                 => /\ exchange.response.status = 403
                    /\ ~exchange.response.credential
                    /\ ~exchange.response.data

\* A sharee of role user asked with includeData=true and got the credential
\* without its data.
C16_Witness ==
    /\ exchange.method = "GET"
    /\ exchange.includeData = "true"
    /\ exchange.id = StoredId
    /\ [userId |-> exchange.userId, role |-> "user"] \in sharedCredentials
    /\ exchange.response = [status |-> 200, credential |-> TRUE, data |-> FALSE]

\* The users that hold a sharing of the stored credential.
Holders ==
    {sh.userId : sh \in sharedCredentials}

\* The sharings of role owner.
OwnerSharings(db) ==
    {sh \in db : sh.role = "owner"}

NamesOf(entries) ==
    {entries[n].name : n \in 1..Len(entries)}

\* The nodes for which a call of loadNodeTypes got a schema.
FetchedWithSchema ==
    {calls[c].nodeName : c \in {d \in 1..Len(calls) : isSchema(calls[d].got)}}

\* C18: the file always declares exactly the names of loadedNodeTypesMap, each
\* once, and these are exactly the nodes for which a call got a schema; so it
\* is when every call has completed, whatever the order of the answers.
C18_NoLoadedTypeLost ==
    /\ NamesOf(dynamicFile.declares) = NamesOf(loadedNodeTypesMap)
    /\ Len(dynamicFile.declares) = Cardinality(NamesOf(loadedNodeTypesMap))
    /\ NamesOf(loadedNodeTypesMap) = FetchedWithSchema
    /\ \A c \in 1..Len(calls) :
          calls[c].got = "loaded" => calls[c].nodeName \in FetchedWithSchema

\* Three calls have completed, two of them for the same node; the node whose
\* schema arrived first is still declared after the later write.
C18_Witness ==
    /\ Len(calls) = 3
    /\ \A c \in 1..3 : calls[c].pc = "done"
    /\ calls[1].nodeName = calls[3].nodeName
    /\ calls[1].nodeName # calls[2].nodeName
    /\ isSchema(calls[1].got) /\ isSchema(calls[2].got) /\ isSchema(calls[3].got)
    /\ keysOf(loadedNodeTypesMap) = <<calls[2].nodeName, calls[1].nodeName>>
    /\ keysOf(dynamicFile.declares) = <<calls[2].nodeName, calls[1].nodeName>>

====
